---- MODULE Spec2Model ----
(***************************************************************************)
(* Model of dashboard.py: the error-report watch-and-dispatch loop.        *)
(*                                                                         *)
(* The Log Store is a file overwritten by an external producer.  The      *)
(* Watcher (App.update_dashboard) runs on the UI thread from a timer,     *)
(* compares the file's modification time with the stored one, reads and   *)
(* parses the file and starts one worker thread per parsed report.  The   *)
(* workers call the AI endpoint and write the Display Surface.            *)
(*                                                                         *)
(* update_dashboard is modelled in steps, because the external producer   *)
(* and the worker threads can run between os.path.getmtime (line 90), the *)
(* read of the file (lines 93-94) and self.after (line 108).              *)
(***************************************************************************)
EXTENDS Naturals, Sequences, FiniteSets, TLC

VARIABLES
    file,             \* the Log Store: [mtime, content]
    last_mtime,       \* App.last_mtime
    last_error_data,  \* App.last_error_data
    mode,             \* App.mode (tk.StringVar)
    display,          \* what App.html_frame shows
    threads,          \* the worker threads ever started, in start order
    timers,           \* callbacks of update_dashboard scheduled by self.after
    wpc,              \* position of the Watcher: "idle" (between polls), or inside
                      \* update_dashboard: "read" (line 93), "show" (line 99),
                      \* "start" (line 102 or 105) or "after" (line 108);
                      \* in App.__init__: "init" (before line 81) or "create"
                      \* (in line 81, os.path.exists has returned False)
    hist,             \* history of the write now in the file: workers started for
                      \* it (dispatches), whether the last poll of it raised (failed),
                      \* whether the poll in progress has parsed it (reading);
                      \* swallowed: some poll has raised
    api,              \* the AI Client, or the Prompt Builder, called on its own:
                      \* arguments and result
    fs                \* the directories of the file system the project analysis walks

vars == <<file, last_mtime, last_error_data, mode, display, threads, timers, wpc,
          hist, api, fs>>

----------------------------------------------------------------------------
(* Bounds of the model *)

\* largest modification time the producer's writes reach
MaxMtime == 2
\* number of worker threads started in one run
MaxThreads == 2
\* longest text of an AI response
MaxTextLen == 2
\* number of readable files in the largest directory
MaxDirFiles == 21

----------------------------------------------------------------------------
(* Values *)

\* Python's None
None == [py_none |-> TRUE]

\* ErrorReports, as json.loads returns them (a dict; a missing key is outside DOMAIN)
ReportA == [stderr |-> "NameError: x undefined", source_code |-> "print(x)",
            file_path |-> <<"tmp", "a.py">>]
ReportB == [stderr |-> "IndexError", file_path |-> <<"proj", "b.py">>]
Reports == {ReportA, ReportB}
\* reports without a file path, or with an empty one
ReportNoPath == [stderr |-> "KeyError: 3", source_code |-> "d[3]"]
ReportEmptyPath == [stderr |-> "KeyError: 3", source_code |-> "d[3]", file_path |-> <<>>]

\* Contents of the Log Store file
EmptyText == ""
TornText == "{\"stderr\": \"Name"
TextA == "{\"stderr\": \"NameError: x undefined\", \"source_code\": \"print(x)\", \"file_path\": \"/tmp/a.py\"}"
TextB == "{\"stderr\": \"IndexError\", \"file_path\": \"/proj/b.py\"}"
Contents == {EmptyText, TornText, TextA, TextB}
\* whitespace only
BlankText == " \n"
\* in place of a content: the file does not exist
Absent == "<no file>"
TextNoPath == "{\"stderr\": \"KeyError: 3\", \"source_code\": \"d[3]\"}"
TextEmptyPath == "{\"stderr\": \"KeyError: 3\", \"source_code\": \"d[3]\", \"file_path\": \"\"}"

Modes == {"general", "dsa", "developer"}

\* content.strip() is non-empty (line 95)
content_strip(content) == content \notin {EmptyText, BlankText}

\* json.loads(content) raises (line 96)
json_raises(content) == content \in {TornText, EmptyText, BlankText}

\* json.loads(content) (line 96), for content it parses
json_loads(content) ==
    CASE content = TextA -> ReportA
      [] content = TextB -> ReportB
      [] content = TextNoPath -> ReportNoPath
      [] content = TextEmptyPath -> ReportEmptyPath

----------------------------------------------------------------------------
(* Strings of the AI exchange are sequences of pieces: a piece is a character of
   the response text or a fixed fragment of an f-string. *)

Chars == {" ", "a"}
Texts == UNION {[1..n -> Chars] : n \in 0..MaxTextLen}

RECURSIVE lstrip(_)
lstrip(s) == IF s # <<>> /\ Head(s) = " " THEN lstrip(Tail(s)) ELSE s

RECURSIVE rstrip(_)
rstrip(s) == IF s # <<>> /\ s[Len(s)] = " " THEN rstrip(SubSeq(s, 1, Len(s) - 1)) ELSE s

\* str.strip() (lines 152, 170)
str_strip(s) == rstrip(lstrip(s))

\* What requests.post / raise_for_status / response.json()[...] can do (lines 150-152):
\* a 2xx response of the expected shape carrying a text, or one of the failures.
Failures == {"ConnectionError", "HTTPError", "KeyError"}
Responses == [kind : {"ok"}, text : Texts] \cup [kind : Failures, text : {<<>>}]

\* The answers of the endpoint in the runs of the whole application: a text and a failure
Answers == {[kind |-> "ok", text |-> <<" ", "a">>], [kind |-> "HTTPError", text |-> <<>>]}

FlashMarker == "Google Gemini (Flash) API Request Failed"
ProMarker == "Google Gemini (Pro) API Request Failed"

\* The value of a call: what it returns, or that it raised
Returned(v) == [raised |-> FALSE, value |-> v]
Raised(e) == [raised |-> TRUE, value |-> <<e>>]

\* The f-strings of lines 144 and 146
flash_prompt(data, m) ==
    IF m = "dsa"
      THEN <<"You are a Socratic tutor... DO NOT provide corrected code.",
             "CODE:", data.source_code, "ERROR:", data.stderr,
             "Provide a short, helpful hint:">>
      ELSE <<"You are an expert developer... explain the bug and provide corrected code.",
             "CODE:", data.source_code, "ERROR:", data.stderr,
             "Provide your analysis and corrected code:">>

\* try/except of lines 149-154 (and 167-172), for the client whose marker is given
api_request(marker, resp) ==
    IF resp.kind = "ok"
      THEN str_strip(resp.text)
      ELSE <<"### ", marker, "[code]", resp.kind, "[/code]">>

\* call_gemini_flash_api without the except clause: a failure of the request is raised
call_gemini_flash_api_no_except(data, m, resp) ==
    IF ~ {"source_code", "stderr"} \subseteq DOMAIN data
      THEN Raised("KeyError")
      ELSE IF resp.kind = "ok" THEN Returned(str_strip(resp.text))
      ELSE Raised(resp.kind)

\* App._call_gemini_flash_api (lines 141-154): the keys source_code and stderr
\* are subscripted while the prompt is built, before the try
call_gemini_flash_api(data, m, resp) ==
    IF ~ {"source_code", "stderr"} \subseteq DOMAIN data
      THEN Raised("KeyError")
      ELSE Returned(api_request(FlashMarker, resp))

\* error_data.get(key) as the f-string of lines 160-161 formats it: None for a missing key
dict_get(d, key) ==
    IF key \in DOMAIN d THEN d[key]
    ELSE IF key = "file_path" THEN <<"None">> ELSE "None"

\* The f-string of lines 158-164
pro_prompt(error_data, project_context) ==
    <<"You are a senior software architect...",
      "THE INITIAL ERROR (in", dict_get(error_data, "file_path"), "):",
      dict_get(error_data, "stderr"),
      "THE FULL PROJECT CONTEXT:", project_context>>

\* App._call_gemini_pro_api (lines 156-172)
call_gemini_pro_api(error_data, project_context, resp) ==
    Returned(api_request(ProMarker, resp))

\* md.render (lines 37-38, 112, 138): a heading followed by a fenced block, or a paragraph
md_render(markdown) ==
    IF markdown = <<>> THEN <<>>
    ELSE IF Head(markdown) = "### "
      THEN <<"<h3>", markdown[2], "</h3>", "<pre>", markdown[4], "</pre>">>
      ELSE <<"<p>">> \o markdown \o <<"</p>">>

\* HTML_TEMPLATE.format(content=html_content) (lines 41-52, 86)
HTML_TEMPLATE(content) == <<"<style>...</style>">> \o content

WaitingHtml == <<"<h1>Waiting for an error...</h1>">>
ProjectPlaceholder == <<"<h1>Project context analysis triggered...</h1>">>
AnalyzingPlaceholder == <<"<h1>Analyzing error...</h1>">>
NoFileContext == <<"<h1>No file context. Run the explain command on a file first.</h1>">>

\* App.show_message (lines 85-86), called by thread `by` (0 is the UI thread)
show_message(html_content, by) == [html |-> HTML_TEMPLATE(html_content), by |-> by]

\* os.path.dirname (line 120), a path being the sequence of its components
dirname(path) == SubSeq(path, 1, Len(path) - 1)

----------------------------------------------------------------------------
(* The file system walked by the project analysis.  A file system maps the path of
   a directory to what os.walk finds in it: the names of its subdirectories and
   its files, in the order of the listing.  A file has a name (a number), a text,
   and can be opened and read or not. *)

File(n) == [name |-> n, readable |-> TRUE, text |-> "pass"]
Locked(n) == [name |-> n, readable |-> FALSE, text |-> "pass"]
Dir(dirs, files) == [dirs |-> dirs, files |-> files]

\* The file system of the runs of the whole application
Disk ==
    (<<"tmp">> :> Dir(<<>>, <<File(1)>>))
    @@ (<<"proj">> :> Dir(<<>>, <<File(2)>>))

\* ignore_dirs (line 123)
ignore_dirs == {".git", "node_modules", "__pycache__", ".vscode", "venv"}

\* the 20 of lines 128 and 135
FileCap == 20

\* project_context, file_count = "", 0 (line 122); visited: the directories os.walk
\* has yielded
NoWalk == [project_context |-> <<>>, file_count |-> 0, visited |-> <<>>]

\* os.path.relpath(path, start) (line 132), for a path under start
relpath(path, start) == SubSeq(path, Len(start) + 1, Len(path))

\* d not in ignore_dirs (line 126)
kept(d) == d \notin ignore_dirs

\* prune with nothing left out: every subdirectory is walked
prune_nothing(dirs) == dirs

\* dirs[:] = [d for d in dirs if d not in ignore_dirs] (line 126)
prune(dirs) == SelectSeq(dirs, kept)

\* walk_file with file_count incremented also for a file that could not be read
walk_file_counting_failures(project_root, root, f, acc) ==
    IF ~ f.readable
      THEN [acc EXCEPT !.file_count = @ + 1]
      ELSE [acc EXCEPT
              !.project_context = Append(@, [dir |-> relpath(root, project_root),
                                             file |-> f.name, text |-> f.text]),
              !.file_count = @ + 1]

\* The body of the loop over files after the test of the cap (lines 129-134): the
\* header with the relative path and the text are appended and the file counted; a
\* file that cannot be opened or read is passed over by continue
walk_file(project_root, root, f, acc) ==
    IF ~ f.readable
      THEN acc
      ELSE [acc EXCEPT
              !.project_context = Append(@, [dir |-> relpath(root, project_root),
                                             file |-> f.name, text |-> f.text]),
              !.file_count = @ + 1]

\* for file in files, left by break when file_count >= 20 (lines 127-134)
RECURSIVE walk_files(_, _, _, _)
walk_files(project_root, root, files, acc) ==
    IF files = <<>> \/ acc.file_count >= FileCap THEN acc
    ELSE walk_files(project_root, root, Tail(files),
                    walk_file(project_root, root, Head(files), acc))

\* the paths of the subdirectories dirs of root, in order
children(root, dirs) == [k \in 1..Len(dirs) |-> Append(root, dirs[k])]

\* for root, dirs, files in os.walk(project_root) (lines 125-135), top-down;
\* pending: the directories os.walk has yet to yield, the next one first
RECURSIVE os_walk(_, _, _, _)
os_walk(tree, project_root, pending, acc) ==
    IF pending = <<>> THEN acc
    ELSE LET root == Head(pending)
             dirs == prune(tree[root].dirs)
             done == walk_files(project_root, root, tree[root].files,
                                [acc EXCEPT !.visited = Append(@, root)])
         IN  IF done.file_count >= FileCap THEN done
             ELSE os_walk(tree, project_root, children(root, dirs) \o Tail(pending), done)

\* The walk of lines 122-135 in the file system tree; os.walk yields nothing for a
\* directory that does not exist
project_walk(tree, project_root) ==
    IF project_root \in DOMAIN tree
      THEN os_walk(tree, project_root, <<project_root>>, NoWalk)
      ELSE NoWalk

\* no_file_context with an empty file_path taken as a file context
no_file_context_missing_only(error_data) ==
    \/ error_data = None
    \/ "file_path" \notin DOMAIN error_data

\* not self.last_error_data or not self.last_error_data.get('file_path') (line 116)
no_file_context(error_data) ==
    \/ error_data = None
    \/ "file_path" \notin DOMAIN error_data
    \/ error_data.file_path = <<>>

----------------------------------------------------------------------------
(* Worker threads *)

\* threading.Thread(target=self.run_single_file_analysis, args=(data, selected_mode)) (line 105)
single_thread(data, selected_mode) ==
    [target |-> "run_single_file_analysis", data |-> data, mode |-> selected_mode,
     pc |-> "run", project_root |-> <<>>, prompt |-> <<>>, report |-> data]

\* threading.Thread(target=self.run_project_analysis) (line 102): no arguments.
\* In a thread, report records the report parsed by the poll that started it and
\* prompt the prompt of the request it issued, empty until requests.post is called;
\* in a thread of developer mode, walk records what its walk gathered.  pc is the
\* position of the thread: "run" in lines 111-113 and "call" in lines 137-139, in
\* both before the request or waiting for its answer; "check" at line 116,
\* "nofile" at line 117, "root" at line 120
project_thread(data) ==
    [target |-> "run_project_analysis", data |-> None, mode |-> "developer",
     pc |-> "check", project_root |-> <<>>, walk |-> NoWalk, prompt |-> <<>>,
     report |-> data]

Live(t) == t.pc \notin {"done", "crashed"}

\* No call of the AI Client on its own
NoCall == [pc |-> "none"]

----------------------------------------------------------------------------
(* Initial state: App.__init__ up to line 82; the call of line 83 is the first poll *)

Init ==
    /\ file \in [mtime : {1}, content : Contents]
    /\ last_mtime = 0
    /\ last_error_data = None
    /\ mode = "general"
    /\ display = show_message(WaitingHtml, 0)
    /\ threads = <<>>
    /\ timers = 1
    /\ wpc = "idle"
    /\ hist = [dispatches |-> 0, failed |-> FALSE, swallowed |-> FALSE, reading |-> FALSE]
    /\ api = NoCall
    /\ fs = Disk

----------------------------------------------------------------------------
(* The environment *)

\* The external producer overwrites the Log Store; the write moves the modification
\* time on (bump) or lands on the same timestamp as the previous write
Write(content, bump) ==
    /\ bump => file.mtime < MaxMtime
    /\ file' = [mtime |-> IF bump THEN file.mtime + 1 ELSE file.mtime, content |-> content]
    /\ hist' = [dispatches |-> 0, failed |-> FALSE, swallowed |-> hist.swallowed,
                reading |-> FALSE]
    /\ UNCHANGED <<last_mtime, last_error_data, mode, display, threads, timers, wpc, api, fs>>

\* The user clicks a Radiobutton (lines 71-73).  The click is an event of the Tk
\* main loop (line 176), which handles it between the callbacks it runs, not while
\* update_dashboard runs and not before __init__ has returned
set_mode(m) ==
    /\ wpc = "idle"
    /\ m # mode
    /\ mode' = m
    /\ UNCHANGED <<file, last_mtime, last_error_data, display, threads, timers, wpc,
                   hist, api, fs>>

----------------------------------------------------------------------------
(* The Watcher: App.update_dashboard (lines 88-108) *)

\* mtime_changed with a poll that raised taken as a change: the file is read again
mtime_changed_or_failed(current_mtime) == current_mtime # last_mtime \/ hist.failed

\* mtime_changed with the comparison left out: every poll reads the file
mtime_changed_always(current_mtime) == TRUE

\* mtime_changed with the initial 0 taken as no timestamp seen yet: the first poll
\* reads nothing
mtime_changed_since_first(current_mtime) == last_mtime # 0 /\ current_mtime # last_mtime

\* current_mtime != self.last_mtime (line 91)
mtime_changed(current_mtime) == current_mtime # last_mtime

\* leave_try with the exception escaping update_dashboard: line 108 is not reached
leave_try_reraise(raised) == IF raised THEN "idle" ELSE "after"

\* Where update_dashboard goes when the try statement is left (lines 106-108),
\* normally or by a swallowed exception
leave_try(raised) == "after"

\* update_dashboard_getmtime without line 92: the timestamp seen is not stored
update_dashboard_getmtime_no_store(fault) ==
    /\ wpc = "idle"
    /\ timers > 0
    /\ timers' = timers - 1
    /\ IF fault = "getmtime" \/ file.content = Absent
         THEN /\ wpc' = leave_try(TRUE)
              /\ hist' = [hist EXCEPT !.failed = TRUE, !.swallowed = TRUE]
         ELSE IF mtime_changed(file.mtime)
         THEN /\ wpc' = "read"
              /\ UNCHANGED hist
         ELSE /\ wpc' = leave_try(FALSE)
              /\ UNCHANGED hist
    /\ UNCHANGED <<file, last_mtime, last_error_data, mode, display, threads, api, fs>>

\* The timer fires; lines 89-92.  fault "getmtime": os.path.getmtime raises, as it
\* does for a file that does not exist
update_dashboard_getmtime(fault) ==
    /\ wpc = "idle"
    /\ timers > 0
    /\ timers' = timers - 1
    /\ IF fault = "getmtime" \/ file.content = Absent
         THEN /\ wpc' = leave_try(TRUE)
              /\ hist' = [hist EXCEPT !.failed = TRUE, !.swallowed = TRUE]
              /\ UNCHANGED last_mtime
         ELSE IF mtime_changed(file.mtime)
         THEN /\ last_mtime' = file.mtime
              /\ wpc' = "read"
              /\ UNCHANGED hist
         ELSE /\ wpc' = leave_try(FALSE)
              /\ UNCHANGED <<last_mtime, hist>>
    /\ UNCHANGED <<file, last_error_data, mode, display, threads, api, fs>>

\* The placeholder of lines 101 and 104
placeholder(selected_mode) ==
    IF selected_mode = "developer" THEN ProjectPlaceholder ELSE AnalyzingPlaceholder

\* new_thread with the target called in update_dashboard instead of started as a thread
new_thread_inline(data, selected_mode) ==
    IF selected_mode = "developer"
      THEN [project_thread(data) EXCEPT !.pc = "done"]
      ELSE [single_thread(data, selected_mode) EXCEPT !.pc = "done"]

\* The thread of lines 102 and 105
new_thread(data, selected_mode) ==
    IF selected_mode = "developer" THEN project_thread(data)
    ELSE single_thread(data, selected_mode)

\* parse_outcome with a report equal to the stored one not taken as parsed
parse_outcome_skip_same(content, fault) ==
    [parsed |-> /\ fault # "open" /\ content_strip(content) /\ ~ json_raises(content)
                /\ json_loads(content) # last_error_data,
     raised |-> fault = "open" \/ (content_strip(content) /\ json_raises(content))]

\* How lines 93-96 end on the content read: parsed (line 96 returned the report)
\* or raised; neither for blank content.  fault "open": open or read raises
parse_outcome(content, fault) ==
    [parsed |-> fault # "open" /\ content_strip(content) /\ ~ json_raises(content),
     raised |-> fault = "open" \/ (content_strip(content) /\ json_raises(content))]

\* The history when the poll in progress raises after line 97
poll_failed(h) ==
    [h EXCEPT !.failed = h.reading \/ h.failed, !.swallowed = TRUE, !.reading = FALSE]

\* The history when the poll in progress has started its thread
poll_started(h) ==
    [h EXCEPT !.dispatches = IF h.reading THEN h.dispatches + 1 ELSE h.dispatches,
              !.failed = ~ h.reading /\ h.failed,
              !.reading = FALSE]

\* update_dashboard_read with the placeholder shown before the test of line 95
update_dashboard_read_blank_shown(fault) ==
    /\ wpc = "read"
    /\ LET content == file.content
           out == parse_outcome(content, fault)
       IN  /\ out.parsed => Len(threads) < MaxThreads
           /\ last_error_data' = IF out.parsed THEN json_loads(content)
                                 ELSE last_error_data
           /\ display' = IF fault # "open"
                           THEN show_message(placeholder(mode), 0) ELSE display
           /\ hist' = IF out.parsed THEN [hist EXCEPT !.reading = TRUE]
                      ELSE [hist EXCEPT !.failed = out.raised,
                                        !.swallowed = hist.swallowed \/ out.raised]
           /\ wpc' = IF out.parsed THEN "show" ELSE leave_try(out.raised)
    /\ UNCHANGED <<file, last_mtime, mode, threads, timers, api, fs>>

\* Lines 93-97: read the file, test for blank content, parse, store the report.  An
\* exception is swallowed at line 106.  A report is read while the run has a
\* thread left to start for it
update_dashboard_read(fault) ==
    /\ wpc = "read"
    /\ LET content == file.content
           out == parse_outcome(content, fault)
       IN  /\ out.parsed => Len(threads) < MaxThreads
           /\ last_error_data' = IF out.parsed THEN json_loads(content)
                                 ELSE last_error_data
           /\ hist' = IF out.parsed THEN [hist EXCEPT !.reading = TRUE]
                      ELSE [hist EXCEPT !.failed = out.raised,
                                        !.swallowed = hist.swallowed \/ out.raised]
           /\ wpc' = IF out.parsed THEN "show" ELSE leave_try(out.raised)
    /\ UNCHANGED <<file, last_mtime, mode, display, threads, timers, api, fs>>

\* Lines 99-101 and 104: read the selected mode and show its placeholder.
\* fault "show": show_message raises, swallowed at line 106
update_dashboard_show(fault) ==
    /\ wpc = "show"
    /\ LET selected_mode == mode
       IN  IF fault = "show"
             THEN /\ hist' = poll_failed(hist)
                  /\ wpc' = leave_try(TRUE)
                  /\ UNCHANGED display
             ELSE /\ display' = show_message(placeholder(selected_mode), 0)
                  /\ wpc' = "start"
                  /\ UNCHANGED hist
    /\ UNCHANGED <<file, last_mtime, last_error_data, mode, threads, timers, api, fs>>

\* update_dashboard_start without the else of line 103: in developer mode the thread
\* of line 105 is started as well
update_dashboard_start_both_targets(fault) ==
    /\ wpc = "start"
    /\ LET selected_mode == mode
           data == last_error_data
           both == selected_mode = "developer" /\ Len(threads) + 1 < MaxThreads
       IN  IF fault = "start"
             THEN /\ hist' = poll_failed(hist)
                  /\ wpc' = leave_try(TRUE)
                  /\ UNCHANGED threads
             ELSE /\ threads' = IF both
                                  THEN threads \o <<project_thread(data),
                                                    single_thread(data, selected_mode)>>
                                  ELSE Append(threads, new_thread(data, selected_mode))
                  /\ hist' = poll_started(hist)
                  /\ wpc' = leave_try(FALSE)
    /\ UNCHANGED <<file, last_mtime, last_error_data, mode, display, timers, api, fs>>

\* Lines 102 and 105: start the thread of the mode read at line 99, which is still
\* the selected one, for data, the report parsed at line 96, which is still the
\* stored one: only update_dashboard assigns self.last_error_data.
\* fault "start": Thread.start raises, swallowed at line 106
update_dashboard_start(fault) ==
    /\ wpc = "start"
    /\ LET selected_mode == mode
           data == last_error_data
       IN  IF fault = "start"
             THEN /\ hist' = poll_failed(hist)
                  /\ wpc' = leave_try(TRUE)
                  /\ UNCHANGED threads
             ELSE /\ threads' = Append(threads, new_thread(data, selected_mode))
                  /\ hist' = poll_started(hist)
                  /\ wpc' = leave_try(FALSE)
    /\ UNCHANGED <<file, last_mtime, last_error_data, mode, display, timers, api, fs>>

\* update_dashboard_after scheduling the callback a second time
update_dashboard_after_twice ==
    /\ wpc = "after"
    /\ timers' = timers + 2
    /\ wpc' = "idle"
    /\ UNCHANGED <<file, last_mtime, last_error_data, mode, display, threads, hist, api, fs>>

\* self.after(2000, self.update_dashboard) (line 108)
update_dashboard_after ==
    /\ wpc = "after"
    /\ timers' = timers + 1
    /\ wpc' = "idle"
    /\ UNCHANGED <<file, last_mtime, last_error_data, mode, display, threads, hist, api, fs>>

----------------------------------------------------------------------------
(* The workers *)

ThreadIds == 1..MaxThreads

\* the request of thread t is out: the prompt is built and requests.post waits for
\* the endpoint (lines 150, 168)
Waiting(t) == t.prompt # <<>>

\* run_single_file_analysis_request with the mode read from self.mode when the
\* thread runs
run_single_file_analysis_request_reads_mode(i) ==
    /\ i \in DOMAIN threads
    /\ threads[i].target = "run_single_file_analysis"
    /\ threads[i].pc = "run"
    /\ ~ Waiting(threads[i])
    /\ IF ~ {"source_code", "stderr"} \subseteq DOMAIN threads[i].data
         THEN threads' = [threads EXCEPT ![i].pc = "crashed"]
         ELSE threads' = [threads EXCEPT
                            ![i].prompt = flash_prompt(threads[i].data, mode)]
    /\ UNCHANGED <<file, last_mtime, last_error_data, mode, display, timers, wpc,
                   hist, api, fs>>

\* App.run_single_file_analysis, thread i: line 111 into _call_gemini_flash_api, up
\* to requests.post (lines 142-150).  The prompt is built from the arguments of the
\* thread; a missing key raises before the try, and the exception ends the thread.
\* Then the request is out and the thread waits for the endpoint.
run_single_file_analysis_request(i) ==
    /\ i \in DOMAIN threads
    /\ threads[i].target = "run_single_file_analysis"
    /\ threads[i].pc = "run"
    /\ ~ Waiting(threads[i])
    /\ IF ~ {"source_code", "stderr"} \subseteq DOMAIN threads[i].data
         THEN \* KeyError at line 144 or 146
              threads' = [threads EXCEPT ![i].pc = "crashed"]
         ELSE threads' = [threads EXCEPT
                            ![i].prompt = flash_prompt(threads[i].data, threads[i].mode)]
    /\ UNCHANGED <<file, last_mtime, last_error_data, mode, display, timers, wpc,
                   hist, api, fs>>

\* run_single_file_analysis_answer with the result of a superseded analysis dropped
run_single_file_analysis_answer_latest_only(i, resp) ==
    /\ i \in DOMAIN threads
    /\ threads[i].target = "run_single_file_analysis"
    /\ threads[i].pc = "run"
    /\ Waiting(threads[i])
    /\ LET ai_markdown == api_request(FlashMarker, resp)
       IN  /\ display' = IF i = Len(threads)
                           THEN show_message(md_render(ai_markdown), i)
                           ELSE display
           /\ threads' = [threads EXCEPT ![i].pc = "done"]
    /\ UNCHANGED <<file, last_mtime, last_error_data, mode, timers, wpc, hist, api, fs>>

\* App.run_single_file_analysis, thread i, the endpoint answering resp (or the
\* request failing, or timing out): the rest of _call_gemini_flash_api (lines
\* 150-154), then lines 112-113
run_single_file_analysis_answer(i, resp) ==
    /\ i \in DOMAIN threads
    /\ threads[i].target = "run_single_file_analysis"
    /\ threads[i].pc = "run"
    /\ Waiting(threads[i])
    /\ LET ai_markdown == api_request(FlashMarker, resp)
       IN  /\ display' = show_message(md_render(ai_markdown), i)
           /\ threads' = [threads EXCEPT ![i].pc = "done"]
    /\ UNCHANGED <<file, last_mtime, last_error_data, mode, timers, wpc, hist, api, fs>>

\* App.run_project_analysis, the test of line 116.  Of its two reads of
\* self.last_error_data the first finds a report, stored at line 97 before the
\* thread was started; the second is the one that .get('file_path') is called on
run_project_analysis_check(i) ==
    /\ i \in DOMAIN threads
    /\ threads[i].target = "run_project_analysis"
    /\ threads[i].pc = "check"
    /\ threads' = [threads EXCEPT
                     ![i].pc = IF no_file_context(last_error_data) THEN "nofile"
                               ELSE "root"]
    /\ UNCHANGED <<file, last_mtime, last_error_data, mode, display, timers, wpc,
                   hist, api, fs>>

\* App.run_project_analysis, lines 117-118: the message is shown and the thread returns
run_project_analysis_nofile(i) ==
    /\ i \in DOMAIN threads
    /\ threads[i].target = "run_project_analysis"
    /\ threads[i].pc = "nofile"
    /\ display' = show_message(NoFileContext, i)
    /\ threads' = [threads EXCEPT ![i].pc = "done"]
    /\ UNCHANGED <<file, last_mtime, last_error_data, mode, timers, wpc, hist, api, fs>>

\* App.run_project_analysis, lines 120-135: project_root and the walk
run_project_analysis_root(i) ==
    /\ i \in DOMAIN threads
    /\ threads[i].target = "run_project_analysis"
    /\ threads[i].pc = "root"
    /\ IF "file_path" \notin DOMAIN last_error_data
         THEN \* KeyError at line 120
              threads' = [threads EXCEPT ![i].pc = "crashed"]
         ELSE LET project_root == dirname(last_error_data.file_path)
              IN  threads' = [threads EXCEPT ![i].pc = "call",
                                             ![i].project_root = project_root,
                                             ![i].walk = project_walk(fs, project_root)]
    /\ UNCHANGED <<file, last_mtime, last_error_data, mode, display, timers, wpc,
                   hist, api, fs>>

\* App.run_project_analysis, thread i: line 137 into _call_gemini_pro_api, up to
\* requests.post (lines 157-168).  self.last_error_data is read here, and the prompt
\* is built from it and from what the walk gathered.  Then the request is out and
\* the thread waits for the endpoint.
run_project_analysis_request(i) ==
    /\ i \in DOMAIN threads
    /\ threads[i].target = "run_project_analysis"
    /\ threads[i].pc = "call"
    /\ ~ Waiting(threads[i])
    /\ threads' = [threads EXCEPT
                     ![i].prompt = pro_prompt(last_error_data,
                                              threads[i].walk.project_context)]
    /\ UNCHANGED <<file, last_mtime, last_error_data, mode, display, timers, wpc,
                   hist, api, fs>>

\* App.run_project_analysis, thread i, the endpoint answering resp (or the request
\* failing, or timing out): the rest of _call_gemini_pro_api (lines 168-172), then
\* lines 138-139
run_project_analysis_answer(i, resp) ==
    /\ i \in DOMAIN threads
    /\ threads[i].target = "run_project_analysis"
    /\ threads[i].pc = "call"
    /\ Waiting(threads[i])
    /\ LET ai_markdown == api_request(ProMarker, resp)
       IN  /\ display' = show_message(md_render(ai_markdown), i)
           /\ threads' = [threads EXCEPT ![i].pc = "done"]
    /\ UNCHANGED <<file, last_mtime, last_error_data, mode, timers, wpc, hist, api, fs>>

----------------------------------------------------------------------------
(* Specifications *)


\* The steps of the producer, the user, the Watcher and the workers.  The reports
\* of Contents all have a file path, so that no worker reaches line 117:
\* run_project_analysis_nofile is a step of NextEdge, whose reports can lack one
Next ==
    \/ \E content \in Contents, bump \in BOOLEAN : Write(content, bump)
    \/ \E m \in Modes : set_mode(m)
    \/ update_dashboard_getmtime("none")
    \/ update_dashboard_read("none")
    \/ update_dashboard_show("none")
    \/ update_dashboard_start("none")
    \/ update_dashboard_after
    \/ \E i \in ThreadIds : run_single_file_analysis_request(i)
    \/ \E i \in ThreadIds, resp \in Answers : run_single_file_analysis_answer(i, resp)
    \/ \E i \in ThreadIds : run_project_analysis_check(i)
    \/ \E i \in ThreadIds : run_project_analysis_root(i)
    \/ \E i \in ThreadIds : run_project_analysis_request(i)
    \/ \E i \in ThreadIds, resp \in Answers : run_project_analysis_answer(i, resp)

\* Normal operation: the file system, the GUI and the thread library do not fail
Spec == Init /\ [][Next]_vars

\* A poll in which a call of the operating system, the GUI or the thread library raises
update_dashboard_fault ==
    \/ update_dashboard_getmtime("getmtime")
    \/ update_dashboard_read("open")
    \/ update_dashboard_show("show")
    \/ update_dashboard_start("start")

NextFault == Next \/ update_dashboard_fault

\* Operation with those failures
SpecFault == Init /\ [][NextFault]_vars

----------------------------------------------------------------------------
(* The AI Client on its own: every report, mode and response of the endpoint *)

InitClient ==
    /\ file = [mtime |-> 1, content |-> EmptyText]
    /\ last_mtime = 0
    /\ last_error_data = None
    /\ mode = "general"
    /\ display = show_message(WaitingHtml, 0)
    /\ threads = <<>>
    /\ timers = 1
    /\ wpc = "idle"
    /\ hist = [dispatches |-> 0, failed |-> FALSE, swallowed |-> FALSE, reading |-> FALSE]
    /\ api \in [pc : {"args"}, client : {"flash", "pro"}, data : Reports,
                mode : {"general", "dsa"}, resp : Responses, result : {Returned(<<>>)}]
    /\ fs = Disk

\* One call of _call_gemini_flash_api or _call_gemini_pro_api with the arguments drawn
call_api ==
    /\ api.pc = "args"
    /\ api' = [api EXCEPT
                 !.pc = "returned",
                 !.result = IF api.client = "flash"
                              THEN call_gemini_flash_api(api.data, api.mode, api.resp)
                              ELSE call_gemini_pro_api(api.data,
                                       NoWalk.project_context, api.resp)]
    /\ UNCHANGED <<file, last_mtime, last_error_data, mode, display, threads, timers, wpc,
                   hist, fs>>

SpecClient == InitClient /\ [][call_api]_vars

----------------------------------------------------------------------------
(* The application started when the Log Store file does not exist *)

\* App.__init__ has run up to line 80
InitStartup ==
    /\ file = [mtime |-> 1, content |-> Absent]
    /\ last_mtime = 0
    /\ last_error_data = None
    /\ mode = "general"
    /\ display = show_message(WaitingHtml, 0)
    /\ threads = <<>>
    /\ timers = 0
    /\ wpc = "init"
    /\ hist = [dispatches |-> 0, failed |-> FALSE, swallowed |-> FALSE, reading |-> FALSE]
    /\ api = NoCall
    /\ fs = Disk

\* Line 81, first half: os.path.exists(LOG_FILE).  When the file exists nothing is
\* opened and __init__ goes on to line 83, whose call is the first poll
create_log_file_exists ==
    /\ wpc = "init"
    /\ IF file.content = Absent
         THEN /\ wpc' = "create"
              /\ UNCHANGED timers
         ELSE /\ wpc' = "idle"
              /\ timers' = 1
    /\ UNCHANGED <<file, last_mtime, last_error_data, mode, display, threads, hist, api, fs>>

\* create_log_file_open with the file not opened for writing
create_log_file_open_not_created(bump) ==
    /\ wpc = "create"
    /\ ~ bump
    /\ wpc' = "idle"
    /\ timers' = 1
    /\ UNCHANGED <<file, last_mtime, last_error_data, mode, display, threads, hist, api, fs>>

\* Line 81, second half: open(LOG_FILE, 'w').close() creates the file empty, or
\* empties the file that the producer has written since os.path.exists returned
\* False; emptying a file moves its modification time on (bump) or leaves it on
\* the timestamp of the producer's write.  Then __init__ goes on to line 83, whose
\* call is the first poll
create_log_file_open(bump) ==
    /\ wpc = "create"
    /\ bump => (file.content # Absent /\ file.mtime < MaxMtime)
    /\ file' = [mtime |-> IF bump THEN file.mtime + 1 ELSE file.mtime,
                content |-> EmptyText]
    /\ hist' = [dispatches |-> 0, failed |-> FALSE, swallowed |-> hist.swallowed,
                reading |-> FALSE]
    /\ wpc' = "idle"
    /\ timers' = 1
    /\ UNCHANGED <<last_mtime, last_error_data, mode, display, threads, api, fs>>

NextStartup ==
    \/ create_log_file_exists
    \/ \E bump \in BOOLEAN : create_log_file_open(bump)
    \/ Next

SpecStartup == InitStartup /\ [][NextStartup]_vars

----------------------------------------------------------------------------
(* The application started on a report written before, with no producer writing *)

InitStale ==
    /\ file \in [mtime : {1}, content : {TextA, TextB}]
    /\ last_mtime = 0
    /\ last_error_data = None
    /\ mode = "general"
    /\ display = show_message(WaitingHtml, 0)
    /\ threads = <<>>
    /\ timers = 1
    /\ wpc = "idle"
    /\ hist = [dispatches |-> 0, failed |-> FALSE, swallowed |-> FALSE, reading |-> FALSE]
    /\ api = NoCall
    /\ fs = Disk

NextStale ==
    \/ \E m \in Modes : set_mode(m)
    \/ update_dashboard_getmtime("none")
    \/ update_dashboard_read("none")
    \/ update_dashboard_show("none")
    \/ update_dashboard_start("none")
    \/ update_dashboard_after
    \/ \E i \in ThreadIds : run_single_file_analysis_request(i)
    \/ \E i \in ThreadIds, resp \in Answers : run_single_file_analysis_answer(i, resp)
    \/ \E i \in ThreadIds : run_project_analysis_check(i)
    \/ \E i \in ThreadIds : run_project_analysis_root(i)
    \/ \E i \in ThreadIds : run_project_analysis_request(i)
    \/ \E i \in ThreadIds, resp \in Answers : run_project_analysis_answer(i, resp)

SpecStale == InitStale /\ [][NextStale]_vars

----------------------------------------------------------------------------
(* The application with a producer that writes blank content and reports without
   a file path, and a user who selects developer mode *)

EdgeContents == {EmptyText, BlankText, TextNoPath, TextEmptyPath, TextB}

InitEdge ==
    /\ file \in [mtime : {1}, content : EdgeContents]
    /\ last_mtime = 0
    /\ last_error_data = None
    /\ mode = "general"
    /\ display = show_message(WaitingHtml, 0)
    /\ threads = <<>>
    /\ timers = 1
    /\ wpc = "idle"
    /\ hist = [dispatches |-> 0, failed |-> FALSE, swallowed |-> FALSE, reading |-> FALSE]
    /\ api = NoCall
    /\ fs = Disk

NextEdge ==
    \/ \E content \in EdgeContents, bump \in BOOLEAN : Write(content, bump)
    \/ set_mode("developer")
    \/ update_dashboard_getmtime("none")
    \/ update_dashboard_read("none")
    \/ update_dashboard_show("none")
    \/ update_dashboard_start("none")
    \/ update_dashboard_after
    \/ \E i \in ThreadIds : run_single_file_analysis_request(i)
    \/ \E i \in ThreadIds, resp \in Answers : run_single_file_analysis_answer(i, resp)
    \/ \E i \in ThreadIds : run_project_analysis_check(i)
    \/ \E i \in ThreadIds : run_project_analysis_nofile(i)
    \/ \E i \in ThreadIds : run_project_analysis_root(i)
    \/ \E i \in ThreadIds : run_project_analysis_request(i)
    \/ \E i \in ThreadIds, resp \in Answers : run_project_analysis_answer(i, resp)

SpecEdge == InitEdge /\ [][NextEdge]_vars

----------------------------------------------------------------------------
(* The Prompt Builder on its own, run twice side by side on the same report and
   mode: each run has its own file system and finds its own stored last reports
   when it reads self.last_error_data *)

\* Disk with the text of the files changed
Edited(n) == [name |-> n, readable |-> TRUE, text |-> "import os"]
DiskEdited ==
    (<<"tmp">> :> Dir(<<>>, <<Edited(1)>>))
    @@ (<<"proj">> :> Dir(<<>>, <<Edited(2)>>))

PromptTrees == {Disk, DiskEdited}

\* What a run finds in self.last_error_data at line 116 (the read that .get is
\* called on), at line 120 and at line 137: the Watcher can store a report
\* between them
Stored == [at116 : Reports, at120 : Reports \cup {ReportNoPath}, at137 : Reports]

\* The prompt of the worker that update_dashboard starts for (data, selected_mode)
\* (lines 99-105) in the file system tree.  run_project_analysis (lines 115-137 and
\* 158-164) takes no argument: it tests the report stored at line 116, walks the
\* directory of the one stored at line 120 and builds the prompt from the report
\* stored at line 137 and the walk; run_single_file_analysis builds it from
\* its arguments (lines 110-111, 142-146).  No prompt is the empty one.
prompt_builder(data, selected_mode, stored, tree) ==
    IF selected_mode = "developer"
      THEN IF no_file_context(stored.at116) THEN Returned(<<>>)
           ELSE IF "file_path" \notin DOMAIN stored.at120 THEN Raised("KeyError")
           ELSE Returned(pro_prompt(stored.at137,
                    project_walk(tree, dirname(stored.at120.file_path)).project_context))
      ELSE IF ~ {"source_code", "stderr"} \subseteq DOMAIN data THEN Raised("KeyError")
      ELSE Returned(flash_prompt(data, selected_mode))

InitPrompt ==
    /\ file = [mtime |-> 1, content |-> EmptyText]
    /\ last_mtime = 0
    /\ last_error_data = None
    /\ mode = "general"
    /\ display = show_message(WaitingHtml, 0)
    /\ threads = <<>>
    /\ timers = 1
    /\ wpc = "idle"
    /\ hist = [dispatches |-> 0, failed |-> FALSE, swallowed |-> FALSE, reading |-> FALSE]
    /\ fs = Disk
    /\ api \in [pc : {"args"}, data : Reports, mode : Modes,
                left : [stored : Stored, tree : PromptTrees, prompt : {Returned(<<>>)}],
                right : [stored : Stored, tree : PromptTrees, prompt : {Returned(<<>>)}]]

\* Both runs build their prompt
build_prompts ==
    /\ api.pc = "args"
    /\ api' = [api EXCEPT
                 !.pc = "built",
                 !.left.prompt = prompt_builder(api.data, api.mode,
                                                api.left.stored, api.left.tree),
                 !.right.prompt = prompt_builder(api.data, api.mode,
                                                 api.right.stored, api.right.tree)]
    /\ UNCHANGED <<file, last_mtime, last_error_data, mode, display, threads, timers, wpc,
                   hist, fs>>

SpecPrompt == InitPrompt /\ [][build_prompts]_vars

----------------------------------------------------------------------------
(* The application with a worker of developer mode already started for ReportB,
   in every file system of a family of directory trees under /proj *)

ProjectRoot == <<"proj">>

\* n readable files
Bulk(n) == [k \in 1..n |-> File(k)]

\* What the directories /proj, /proj/src and /proj/src/lib hold: one file each; more
\* files than the cap in src; a file that cannot be read before more files than the
\* cap in /proj; files that cannot be read before one that can, and more files
\* than the cap behind one that cannot be read in lib; nothing in /proj
Listings ==
    {[ftop |-> <<File(1)>>, fsrc |-> <<File(1)>>, flib |-> <<File(1)>>],
     [ftop |-> <<File(1)>>, fsrc |-> Bulk(MaxDirFiles), flib |-> <<File(1)>>],
     [ftop |-> <<Locked(0)>> \o Bulk(MaxDirFiles), fsrc |-> <<File(1)>>,
      flib |-> <<File(1)>>],
     [ftop |-> <<Locked(1), File(2)>>, fsrc |-> <<Locked(1)>>,
      flib |-> <<Locked(0)>> \o Bulk(MaxDirFiles)],
     [ftop |-> <<>>, fsrc |-> <<Locked(1), File(2)>>, flib |-> <<File(1)>>]}

\* The subdirectories of /proj (top) and of /proj/src (sub): none; src and lib with
\* no tooling directory; tooling directories listed before and after them
Shapes ==
    {[top |-> <<>>, sub |-> <<>>],
     [top |-> <<"src">>, sub |-> <<"lib">>],
     [top |-> <<"venv", "src">>, sub |-> <<"lib", "node_modules">>],
     [top |-> <<"src", ".git">>, sub |-> <<".vscode", "lib">>],
     [top |-> <<"__pycache__", "src">>, sub |-> <<>>]}

Range(seq) == {seq[k] : k \in DOMAIN seq}
Last(seq) == seq[Len(seq)]

\* The directories of the tree chosen by c; a tooling directory holds a file and a
\* subdirectory lib with a file
TreeDirs(c) ==
    LET top == {ProjectRoot \o <<d>> : d \in Range(c.top)}
        sub == IF "src" \in Range(c.top)
                 THEN {ProjectRoot \o <<"src", d>> : d \in Range(c.sub)}
                 ELSE {}
        tooling == {p \in top \cup sub : Last(p) \in ignore_dirs}
    IN  {ProjectRoot} \cup top \cup sub \cup {Append(p, "lib") : p \in tooling}

Tree(c) ==
    [p \in TreeDirs(c) |->
        IF p = ProjectRoot THEN Dir(c.top, c.ftop)
        ELSE IF Last(p) \in ignore_dirs THEN Dir(<<"lib">>, <<File(1)>>)
        ELSE IF p = ProjectRoot \o <<"src">> THEN Dir(c.sub, c.fsrc)
        ELSE IF p = ProjectRoot \o <<"src", "lib">> THEN Dir(<<>>, c.flib)
        ELSE Dir(<<>>, <<File(1)>>)]

Trees == {Tree(s @@ l) : s \in Shapes, l \in Listings}

\* The poll that read ReportB in developer mode has started the worker; the
\* producer, the user and the Watcher go on as in Spec
InitWalk ==
    /\ file = [mtime |-> 1, content |-> TextB]
    /\ last_mtime = 1
    /\ last_error_data = ReportB
    /\ mode = "developer"
    /\ display = show_message(ProjectPlaceholder, 0)
    /\ threads = <<project_thread(ReportB)>>
    /\ timers = 1
    /\ wpc = "idle"
    /\ hist = [dispatches |-> 1, failed |-> FALSE, swallowed |-> FALSE, reading |-> FALSE]
    /\ api = NoCall
    /\ fs \in Trees

SpecWalk == InitWalk /\ [][Next]_vars

----------------------------------------------------------------------------
(* Steps of the Watcher, as seen in a pair of states *)

\* the timer fires and update_dashboard begins
PollBegins == wpc = "idle" /\ wpc' # "idle"
\* update_dashboard finds the modification time unchanged (or getmtime raises)
PollSkips == wpc = "idle" /\ wpc' = "after"
\* update_dashboard reads the file (lines 93-97)
PollReads == wpc = "read" /\ wpc' # "read"
\* update_dashboard reads the mode and shows the placeholder (lines 99-101, 104)
PollShows == wpc = "show" /\ wpc' # "show"
\* update_dashboard starts the thread (lines 102, 105)
PollStarts == wpc = "start" /\ wpc' # "start"

\* the content is a report: non-blank and parsed by json.loads
IsReport(content) == content_strip(content) /\ ~ json_raises(content)

----------------------------------------------------------------------------
(* C1 *)

\* C1, as stated: every write of a well-formed report is detected by the next poll
\* after it and gets exactly one analysis dispatch: no write in the file has two
\* dispatches, and a poll that ends without reading the file leaves no report in it
\* that has had none.
C1_EveryWriteDispatchedOnce ==
    [][ /\ hist'.dispatches <= 1
        /\ (PollSkips /\ IsReport(file.content)) => hist.dispatches = 1 ]_vars

\* C1, amended: a poll begins to read exactly when the modification time differs from
\* the stored one; a poll that reads a well-formed report starts exactly one worker,
\* for the report it read: it stores the report and goes on to show the
\* placeholder and to start the thread, the stored report is the one it read
\* until the thread is started, and the thread started is a new worker for the
\* stored report, counted for the write when the write is still in the file;
\* nothing else starts a worker.
C1_OneDispatchPerDetectingPoll ==
    [][ /\ PollBegins => (wpc' = "read" <=> file.mtime # last_mtime)
        /\ PollReads => (wpc' = "show" <=> IsReport(file.content))
        /\ (PollReads /\ IsReport(file.content)) =>
              last_error_data' = json_loads(file.content)
        /\ wpc \in {"show", "start"} => last_error_data' = last_error_data
        /\ PollShows => wpc' = "start"
        /\ PollStarts =>
              /\ Len(threads') = Len(threads) + 1
              /\ SubSeq(threads', 1, Len(threads)) = threads
              /\ threads'[Len(threads')].report = last_error_data
              /\ Live(threads'[Len(threads')])
              /\ hist.reading => hist'.dispatches = hist.dispatches + 1
        /\ ~ PollStarts => Len(threads') = Len(threads) ]_vars

\* A report written after startup has been detected and dispatched once
C1_Witness ==
    /\ file = [mtime |-> 2, content |-> TextB]
    /\ hist.dispatches = 1
    /\ wpc = "after"
    /\ \E i \in DOMAIN threads : threads[i].report = ReportB

----------------------------------------------------------------------------
(* C2 *)

\* C2: a poll that reads malformed JSON swallows the failure: it changes neither the
\* stored report, the display nor the workers, and goes on to line 108; the timer is
\* pending again afterwards; and once a failure has been swallowed, a poll that finds
\* a changed modification time still reads, and a poll that reads a well-formed
\* report still dispatches it.
C2_MalformedNeverStopsPolling ==
    [][ /\ (PollReads /\ content_strip(file.content) /\ json_raises(file.content)) =>
              /\ wpc' = "after"
              /\ UNCHANGED <<last_error_data, display, threads, last_mtime>>
        /\ hist'.swallowed => (timers' = 1 <=> wpc' = "idle")
        /\ (hist.swallowed /\ PollBegins /\ file.mtime # last_mtime) => wpc' = "read"
        /\ (hist.swallowed /\ PollReads /\ IsReport(file.content)) =>
              /\ wpc' = "show"
              /\ last_error_data' = json_loads(file.content)
        /\ (hist.swallowed /\ PollShows) => wpc' = "start"
        /\ (hist.swallowed /\ PollStarts) =>
              /\ Len(threads') = Len(threads) + 1
              /\ threads'[Len(threads')].report = last_error_data ]_vars

\* A malformed write was read and swallowed, and the valid write after it is dispatched
C2_Witness ==
    /\ hist.swallowed
    /\ IsReport(file.content)
    /\ hist.dispatches = 1
    /\ threads # <<>>
    /\ threads[Len(threads)].report = json_loads(file.content)
    /\ Live(threads[Len(threads)])

----------------------------------------------------------------------------
(* C3 *)

\* a poll reads content equal to the report dispatched last, written anew since
RereadsSameReport ==
    /\ PollReads
    /\ IsReport(file.content)
    /\ json_loads(file.content) = last_error_data
    /\ hist.dispatches = 0

\* a poll is to start the thread for a report equal to the one dispatched last
RestartsSameReport ==
    /\ PollStarts
    /\ threads # <<>>
    /\ threads[Len(threads)].report = last_error_data

\* C3, as stated: a poll that finds the modification time unchanged does nothing, and
\* a write of content identical to the dispatched report starts no second analysis.
C3_IdenticalContentNotReanalysed ==
    [][ /\ (PollBegins /\ file.mtime = last_mtime) =>
              /\ wpc' = "after"
              /\ UNCHANGED <<last_mtime, last_error_data, display, threads>>
        /\ RereadsSameReport => wpc' = "after"
        /\ RestartsSameReport => threads' = threads ]_vars

\* C3, amended: a poll that finds the modification time unchanged does nothing; a
\* worker is started only by a poll that found it changed; and such a poll starts a
\* second analysis also for content identical to the report dispatched last.
C3_UnchangedMtimeNoAnalysis ==
    [][ /\ (PollBegins /\ file.mtime = last_mtime) =>
              /\ wpc' = "after"
              /\ UNCHANGED <<last_mtime, last_error_data, display, threads>>
        /\ threads' # threads /\ Len(threads') > Len(threads) => wpc = "start"
        /\ wpc' = "read" /\ wpc # "read" => file.mtime # last_mtime
        /\ wpc' \in {"show", "start"} => wpc \in {"read", "show", "start"}
        /\ RereadsSameReport =>
              /\ wpc' = "show"
              /\ last_error_data' = last_error_data
        /\ RestartsSameReport =>
              /\ Len(threads') = Len(threads) + 1
              /\ threads'[Len(threads')].report = last_error_data ]_vars

\* The same report has been written again with a new modification time and analysed twice
C3_Witness ==
    /\ Len(threads) = 2
    /\ threads[1].report = threads[2].report
    /\ file.mtime = 2
    /\ last_mtime = 2
    /\ hist.dispatches = 1
    /\ json_loads(file.content) = threads[2].report

----------------------------------------------------------------------------
(* C4 *)

\* C4, as stated: every dispatched analysis of a report with at least stderr ends
\* with the worker writing the display: no worker thread ends by an exception,
\* leaving the display as it was.
C4_EveryDispatchRendered ==
    \A i \in DOMAIN threads :
        "stderr" \in DOMAIN threads[i].report => threads[i].pc # "crashed"

----------------------------------------------------------------------------
(* C5 *)

\* v is t without its leading and trailing blanks
Trimmed(v, t) ==
    /\ \E i \in 1..(Len(t) + 1), j \in 0..Len(t) :
          /\ v = SubSeq(t, i, j)
          /\ \A k \in 1..Len(t) : (k < i \/ k > j) => t[k] = " "
    /\ v # <<>> => (v[1] # " " /\ v[Len(v)] # " ")

\* the string s holds the piece x
Contains(s, x) == \E k \in DOMAIN s : s[k] = x

\* the request of the call was issued: the prompt was built
Requested == api.client = "pro" \/ {"source_code", "stderr"} \subseteq DOMAIN api.data

\* C5: whenever the request fails (network error, non-2xx status, malformed response),
\* either client returns a string holding its failure marker and raises nothing;
\* on success it returns the text of the response without leading and trailing blanks.
C5_FailureReturnedAsMarkedString ==
    (api.pc = "returned" /\ Requested) =>
        /\ ~ api.result.raised
        /\ IF api.resp.kind \in Failures
             THEN Contains(api.result.value,
                           IF api.client = "flash" THEN FlashMarker ELSE ProMarker)
             ELSE Trimmed(api.result.value, api.resp.text)

\* The per-error client has returned the marked string for a non-2xx response
C5_Witness ==
    /\ api.pc = "returned"
    /\ api.client = "flash"
    /\ api.resp.kind = "HTTPError"
    /\ Requested
    /\ ~ api.result.raised
    /\ Contains(api.result.value, FlashMarker)

----------------------------------------------------------------------------
(* C6 *)

\* C6: exactly one poll is pending or running: between polls one callback is
\* scheduled, and while update_dashboard runs none is, until line 108 schedules one.
C6_ExactlyOnePollPending ==
    /\ wpc = "idle" => timers = 1
    /\ wpc # "idle" => timers = 0

\* The thread could not be started: the placeholder is shown, no worker exists, and
\* the next poll is scheduled
C6_Witness ==
    /\ hist.failed
    /\ IsReport(file.content)
    /\ threads = <<>>
    /\ display = show_message(AnalyzingPlaceholder, 0)
    /\ wpc = "idle"
    /\ timers = 1

----------------------------------------------------------------------------
(* C7 *)

Placeholders == {show_message(ProjectPlaceholder, 0), show_message(AnalyzingPlaceholder, 0)}

\* C7: a step of update_dashboard neither runs nor waits for an analysis: it leaves
\* every existing worker as it is, a worker it starts has not run yet, and the only
\* thing it puts on the display is a placeholder; and whatever the workers are
\* doing, the scheduled poll can begin.
C7_PollNeverBlockedByAnalysis ==
    /\ [][ wpc' # wpc =>
             /\ \A i \in DOMAIN threads : i \in DOMAIN threads' /\ threads'[i] = threads[i]
             /\ \A i \in DOMAIN threads' \ DOMAIN threads :
                    threads'[i].pc \in {"run", "check"} /\ threads'[i].prompt = <<>>
             /\ display' # display => display' \in Placeholders ]_vars
    /\ [](wpc = "idle" => ENABLED update_dashboard_getmtime("none"))

\* A newer report has been dispatched while the analysis of an earlier one is in
\* flight, and the next poll is scheduled
C7_Witness ==
    /\ Len(threads) = 2
    /\ Live(threads[1])
    /\ Live(threads[2])
    /\ threads[1].report # threads[2].report
    /\ wpc = "idle"
    /\ timers = 1

----------------------------------------------------------------------------
(* C8 *)

\* C8: no analysis is cancelled or superseded: a worker stays in the list with its
\* report, leaves "running" only by finishing, and when it finishes by showing its
\* result, the display holds that result, whether or not newer reports have been
\* detected; so the display shows the output of the worker that finished last.
C8_LastToFinishWins ==
    [][ \A i \in DOMAIN threads :
          /\ i \in DOMAIN threads'
          /\ threads'[i].report = threads[i].report
          /\ threads'[i].pc \in {"run", "check", "nofile", "root", "call", "done", "crashed"}
          /\ ~ Live(threads[i]) => threads'[i] = threads[i]
          /\ (Live(threads[i]) /\ threads'[i].pc = "done") => display'.by = i ]_vars

\* Two reports were detected and both analyses completed; the display shows the
\* result of the earlier report
C8_Witness ==
    /\ Len(threads) = 2
    /\ threads[1].pc = "done"
    /\ threads[2].pc = "done"
    /\ threads[1].report # threads[2].report
    /\ last_error_data = threads[2].report
    /\ display.by = 1

----------------------------------------------------------------------------
(* C9 *)

\* C9: the timestamp is stored before the file is read, and a read that fails does
\* not undo it: a poll that goes on to read has stored the modification time it
\* saw, the read changes it no more, and after a poll of the write that raised,
\* a poll that finds the stored modification time is a no-op.
C9_TimestampStoredBeforeRead ==
    [][ /\ (PollBegins /\ wpc' = "read") => last_mtime' = file.mtime
        /\ (PollReads \/ PollShows \/ PollStarts) => last_mtime' = last_mtime
        /\ (PollBegins /\ hist.failed /\ file.mtime = last_mtime) =>
              /\ wpc' = "after"
              /\ UNCHANGED <<last_mtime, last_error_data, display, threads>> ]_vars

\* The read of a valid report failed: the timestamp is stored, nothing was parsed
\* or dispatched, and the next poll is scheduled
C9_Witness ==
    /\ hist.failed
    /\ IsReport(file.content)
    /\ last_mtime = file.mtime
    /\ last_error_data = None
    /\ threads = <<>>
    /\ wpc = "idle"

----------------------------------------------------------------------------
(* C10 *)

\* C10, as stated: after a poll has swallowed a failure on the write in the file,
\* the next poll reads the file again.
C10_NextPollRetries ==
    [][ (PollBegins /\ hist.failed) => wpc' = "read" ]_vars

\* C10, amended: after a poll has swallowed a failure on the write in the file, the
\* next poll reads the file again only if the modification time differs from the
\* stored one; otherwise it is a no-op that reads and dispatches nothing.
C10_RetryOnlyOnChangedMtime ==
    [][ /\ (PollBegins /\ hist.failed /\ wpc' = "read") => file.mtime # last_mtime
        /\ (PollBegins /\ hist.failed /\ file.mtime = last_mtime) =>
              /\ wpc' = "after"
              /\ UNCHANGED <<last_error_data, threads, hist>> ]_vars

\* A malformed write has been read and swallowed; the next poll is due and the
\* modification time is the stored one
C10_Witness ==
    /\ hist.failed
    /\ file.content = TornText
    /\ file.mtime = last_mtime
    /\ wpc = "idle"
    /\ timers = 1

----------------------------------------------------------------------------
(* C11 *)

\* C11, as stated: every poll that finds the modification time changed, and so
\* reads the file, starts exactly one worker, and a poll that finds it unchanged
\* starts none.
C11_EveryDetectedChangeSpawnsOne ==
    [][ /\ PollReads => wpc' = "show"
        /\ PollShows => wpc' = "start"
        /\ PollStarts => Len(threads') = Len(threads) + 1
        /\ PollSkips => threads' = threads ]_vars

\* C11, amended: a poll that finds the modification time changed starts exactly one
\* worker when the content it reads is a report and none when the content is empty
\* or malformed; a poll that finds it unchanged starts none; no other step starts
\* a worker: the workers started are at most as many as the changes detected.
C11_AtMostOneWorkerPerDetectedChange ==
    [][ /\ PollReads => wpc' = (IF IsReport(file.content) THEN "show" ELSE "after")
        /\ PollShows => wpc' = "start"
        /\ PollStarts => Len(threads') = Len(threads) + 1
        /\ PollSkips => threads' = threads
        /\ wpc' = "start" /\ wpc # "start" => wpc = "show"
        /\ wpc' = "show" /\ wpc # "show" => wpc = "read"
        /\ Len(threads') # Len(threads) => PollStarts ]_vars

\* Two changes were detected and one worker was started: the second change held
\* malformed content
C11_Witness ==
    /\ file = [mtime |-> 2, content |-> TornText]
    /\ last_mtime = 2
    /\ wpc = "after"
    /\ hist.failed
    /\ Len(threads) = 1

----------------------------------------------------------------------------
(* C12 *)

\* the path has a component named like a tooling directory
Tooling(path) ==
    \E k \in DOMAIN path : path[k] \in {".git", "node_modules", "__pycache__", ".vscode", "venv"}

\* C12: in developer mode the walk yields no directory that lies in a directory
\* named .git, node_modules, __pycache__, .vscode or venv at any depth below the
\* report's directory and includes no file from one; it includes at most 20 files
\* and visits no directory after the one that gave the 20th; and the project
\* context of the prompt sent to the AI is what the walk gathered.
C12_WalkSkipsToolingDirsAndStopsAt20 ==
    \A i \in DOMAIN threads :
      threads[i].target = "run_project_analysis" =>
        LET w == threads[i].walk
            n == Len(w.project_context)
        IN  /\ \A k \in DOMAIN w.visited :
                   ~ Tooling(relpath(w.visited[k], threads[i].project_root))
            /\ \A k \in DOMAIN w.project_context : ~ Tooling(w.project_context[k].dir)
            /\ n <= 20
            /\ n = 20 =>
                   Last(w.visited) = threads[i].project_root \o w.project_context[20].dir
            /\ threads[i].prompt # <<>> => Last(threads[i].prompt) = w.project_context

\* The analysis is done in a tree with a venv beside src and a node_modules in src,
\* where src holds more files than the cap: 20 files went into the prompt, and the
\* walk ended in src
C12_Witness ==
    /\ threads # <<>>
    /\ threads[1].pc = "done"
    /\ fs[ProjectRoot].dirs = <<"venv", "src">>
    /\ fs[ProjectRoot \o <<"src">>].dirs = <<"lib", "node_modules">>
    /\ Len(fs[ProjectRoot].files) = 1
    /\ Len(fs[ProjectRoot \o <<"src">>].files) > 20
    /\ Len(Last(threads[1].prompt)) = 20
    /\ threads[1].walk.visited = <<ProjectRoot, ProjectRoot \o <<"src">> >>

----------------------------------------------------------------------------
(* C16 *)

\* the directories of the tree that the walk from project_root is to visit
Walkable(tree, project_root) ==
    {p \in DOMAIN tree :
        /\ Len(p) >= Len(project_root)
        /\ SubSeq(p, 1, Len(project_root)) = project_root
        /\ ~ Tooling(relpath(p, project_root))}

\* the files in them that can be read
Readable(tree, project_root) ==
    UNION {{<<p, k>> : k \in {j \in DOMAIN tree[p].files : tree[p].files[j].readable}} :
             p \in Walkable(tree, project_root)}

Min(a, b) == IF a <= b THEN a ELSE b

\* C16: in developer mode a file that cannot be opened or read ends no worker by an
\* exception and puts nothing into the project context: every entry is a file of
\* the tree that can be read; such a file is not counted: file_count is the number
\* of entries; and the walk goes on after it: the context holds 20 files, or all
\* the readable files when they are fewer.
C16_UnreadableFileSkipped ==
    \A i \in DOMAIN threads :
        threads[i].target = "run_project_analysis" =>
            LET w == threads[i].walk
                project_root == threads[i].project_root
            IN  /\ threads[i].pc # "crashed"
                /\ \A k \in DOMAIN w.project_context :
                       LET e == w.project_context[k]
                       IN  \E f \in Range(fs[project_root \o e.dir].files) :
                              f.name = e.file /\ f.readable /\ f.text = e.text
                /\ w.file_count = Len(w.project_context)
                /\ threads[i].pc \in {"call", "done"} =>
                       Len(w.project_context)
                         = Min(20, Cardinality(Readable(fs, project_root)))

\* The analysis is done in a tree whose top directory lists a file that cannot be
\* read before more readable files than the cap: 20 files are in the context, the
\* first of them the file listed after the unreadable one
C16_Witness ==
    /\ threads # <<>>
    /\ threads[1].pc = "done"
    /\ Len(fs[ProjectRoot].files) > 21
    /\ ~ fs[ProjectRoot].files[1].readable
    /\ threads[1].walk.file_count = 20
    /\ threads[1].walk.project_context[1].file = fs[ProjectRoot].files[2].name
    /\ threads[1].walk.project_context[20].file = fs[ProjectRoot].files[21].name

----------------------------------------------------------------------------
(* C13 *)

\* C13, as stated: in every mode two runs on the same report and mode build the
\* same prompt, whatever each run finds in the stored last report when it reads
\* it and whatever the file system of each run.
C13_SamePromptForSameReportAndMode ==
    api.pc = "built" => api.left.prompt = api.right.prompt

----------------------------------------------------------------------------
(* C14 *)

\* thread i issues its request in the step
Requests(i) == threads[i].prompt = <<>> /\ threads'[i].prompt # <<>>

\* C14: the worker started by a poll has the mode that is selected when the poll
\* reads the report, and the target that goes with it; the mode and target of a
\* worker never change; the prompt of its request is the one of that mode (the
\* project-wide prompt for developer, the hint-only prompt for dsa, the general
\* prompt otherwise); and a change of the selected mode changes nothing else: it
\* alters no worker and starts none.
C14_ModeReadOnceAtDetection ==
    [][ /\ PollShows => display' = show_message(placeholder(mode), 0)
        /\ wpc \in {"read", "show", "start"} => mode' = mode
        /\ PollStarts =>
              /\ threads'[Len(threads')].mode = mode
              /\ threads'[Len(threads')].target =
                    (IF mode = "developer" THEN "run_project_analysis"
                     ELSE "run_single_file_analysis")
        /\ \A i \in DOMAIN threads :
              /\ threads'[i].mode = threads[i].mode
              /\ threads'[i].target = threads[i].target
              /\ Requests(i) =>
                    threads'[i].prompt[1] =
                      (IF threads[i].mode = "developer"
                         THEN "You are a senior software architect..."
                       ELSE IF threads[i].mode = "dsa"
                         THEN "You are a Socratic tutor... DO NOT provide corrected code."
                       ELSE "You are an expert developer... explain the bug and provide corrected code.")
        /\ mode' # mode =>
              UNCHANGED <<file, last_mtime, last_error_data, display, threads, timers, wpc>>
      ]_vars

\* The one analysis, dispatched in dsa mode, has sent the hint-only prompt; the
\* selected mode is now developer, and the report in the file has no other dispatch
C14_Witness ==
    /\ Len(threads) = 1
    /\ threads[1].mode = "dsa"
    /\ threads[1].pc = "done"
    /\ threads[1].prompt[1] = "You are a Socratic tutor... DO NOT provide corrected code."
    /\ mode = "developer"
    /\ hist.dispatches = 1
    /\ last_mtime = file.mtime

----------------------------------------------------------------------------
(* C15 *)

\* C15: a poll that finds the modification time changed stores it, and that is all
\* it changes when the content it reads is empty or only whitespace: it starts no
\* worker and leaves the stored last report and the display as they are, and
\* goes on to schedule the next poll.
C15_BlankContentIsNoOp ==
    [][ /\ (PollBegins /\ wpc' = "read") =>
              /\ last_mtime' = file.mtime
              /\ UNCHANGED <<last_error_data, display, threads, mode, file>>
        /\ (PollReads /\ file.content \in {EmptyText, BlankText}) =>
              /\ wpc' = "after"
              /\ UNCHANGED <<last_mtime, last_error_data, display, threads, mode, file,
                             timers>> ]_vars

\* After an analysis has put its result on the display, whitespace was written and
\* the poll that detected it has read it: the timestamp is the new one, the stored
\* report and the display are those of the analysis, and no second worker exists
C15_Witness ==
    /\ file = [mtime |-> 2, content |-> BlankText]
    /\ last_mtime = 2
    /\ wpc = "after"
    /\ hist.dispatches = 0
    /\ last_error_data = ReportNoPath
    /\ Len(threads) = 1
    /\ threads[1].pc = "done"
    /\ display.by = 1

----------------------------------------------------------------------------
(* C19 *)

\* thread i of developer mode makes the test of line 116 in the step
ChecksContext(i) ==
    /\ threads[i].target = "run_project_analysis"
    /\ threads[i].pc = "check"
    /\ threads'[i].pc # "check"

\* C19: a worker of developer mode that finds the stored last report without a
\* file_path, or with an empty one, at the test of line 116 goes to line 117 and
\* nowhere else; there its one step shows the No file context message and
\* returns, whatever has been stored or shown since the test; it has walked no
\* directory and issued no request, and a worker that has returned does nothing
\* more.
C19_NoFileContextShownWithoutWalkOrRequest ==
    [][ \A i \in DOMAIN threads :
          /\ ( /\ ChecksContext(i)
               /\ \/ "file_path" \notin DOMAIN last_error_data
                  \/ last_error_data.file_path = <<>> ) =>
                threads'[i].pc = "nofile"
          /\ threads[i].pc = "nofile" =>
                /\ threads'[i].pc \in {"nofile", "done"}
                /\ threads'[i].project_root = <<>>
                /\ threads'[i].walk.visited = <<>>
                /\ threads'[i].prompt = <<>>
                /\ threads'[i].pc = "done" =>
                      display' = show_message(
                        <<"<h1>No file context. Run the explain command on a file first.</h1>">>, i)
          /\ threads[i].pc = "done" => threads'[i] = threads[i] ]_vars

\* The worker of developer mode found the stored report with an empty file_path
\* at line 116; before it reached line 117 a poll stored the next report and
\* started a second worker; the first has then shown the message and returned,
\* with nothing walked and nothing requested
C19_Witness ==
    /\ Len(threads) = 2
    /\ threads[1].target = "run_project_analysis"
    /\ threads[1].pc = "done"
    /\ threads[1].report = ReportEmptyPath
    /\ threads[2].pc = "check"
    /\ last_error_data = ReportB
    /\ threads[1].prompt = <<>>
    /\ threads[1].walk.visited = <<>>
    /\ display = show_message(NoFileContext, 1)

----------------------------------------------------------------------------
(* C17 *)

\* nothing has been dispatched and the display shows the initial message
Quiet ==
    /\ threads = <<>>
    /\ last_error_data = None
    /\ display = show_message(<<"<h1>Waiting for an error...</h1>">>, 0)

\* C17: when the file does not exist at line 81 it is created empty before the
\* first poll: the test of line 81 goes on to open the file exactly when it does
\* not exist, no poll begins before the file is opened, and opening it leaves it
\* empty, with nothing stored or dispatched and the first poll due; and from a
\* state where the file is empty and nothing has been dispatched, every step that
\* leaves the file empty (a poll, or a write of empty content) dispatches nothing
\* and leaves the initial message.
C17_CreatedEmptyAndQuietUntilWritten ==
    [][ /\ (wpc = "init" /\ wpc' # "init") =>
              /\ wpc' = (IF file.content = Absent THEN "create" ELSE "idle")
              /\ file' = file
        /\ wpc = "create" => wpc' \in {"create", "idle"}
        /\ (wpc = "create" /\ wpc' # "create") =>
              /\ file'.content = EmptyText
              /\ last_mtime' = 0
              /\ timers' = 1
              /\ Quiet'
        /\ (wpc \notin {"init", "create"} /\ file.content = EmptyText /\ Quiet
              /\ file'.content = EmptyText)
              => Quiet' ]_vars

\* The file was created at startup and has been polled: the timestamp is stored,
\* the file is empty, nothing is dispatched and the initial message is shown
C17_Witness ==
    /\ file = [mtime |-> 1, content |-> EmptyText]
    /\ last_mtime = 1
    /\ wpc = "idle"
    /\ timers = 1
    /\ ~ hist.swallowed
    /\ Quiet

----------------------------------------------------------------------------
(* C18 *)

\* C18, as stated: every worker builds its prompt from the report parsed by the
\* poll that started it: the project root of a worker of developer mode is the
\* directory of the file_path of that report, and the error text in the prompt of
\* a request is the stderr of that report.
C18_WorkerAnalysesItsOwnReport ==
    \A i \in DOMAIN threads :
        /\ (threads[i].target = "run_project_analysis" /\ threads[i].pc \in {"call", "done"}) =>
              threads[i].project_root = dirname(threads[i].report.file_path)
        /\ threads[i].prompt # <<>> => threads[i].prompt[5] = threads[i].report.stderr

----------------------------------------------------------------------------
(* C20 *)

\* C20: with a report in the file at startup and no write afterwards, the poll
\* that finds the stored timestamp 0 reads the file; once the first poll has read,
\* there is exactly one worker, started for the report in the file, and no poll
\* ever starts a second one.
C20_StaleReportDispatchedOnceAtStartup ==
    /\ [][ (PollBegins /\ last_mtime = 0) => wpc' = "read" ]_vars
    /\ [](Len(threads) <= 1)
    /\ []((last_mtime # 0 /\ wpc \notin {"read", "show", "start"}) =>
            /\ Len(threads) = 1
            /\ threads[1].report = json_loads(file.content)
            /\ hist.dispatches = 1)

\* The report found at startup has been analysed, and a later poll is due with
\* the timestamp of the file stored
C20_Witness ==
    /\ file = [mtime |-> 1, content |-> TextA]
    /\ last_mtime = 1
    /\ Len(threads) = 1
    /\ threads[1].report = ReportA
    /\ threads[1].pc = "done"
    /\ hist.dispatches = 1
    /\ wpc = "idle"
    /\ timers = 1

====
